---- MODULE Spec2Model ----
(***************************************************************************)
(* A model of the parachute descent simulation:                            *)
(*   - CustomPhysicsBody / CustomPhysicsWorld (src/src/customPhysics.js)   *)
(*   - ParachutePhysics (src/src/parachutePhysics.js, second version in    *)
(*     the file, lines 298-921)                                            *)
(*   - PhysicsControls (src/src/physicsControls.js)                        *)
(*                                                                         *)
(* The code computes in IEEE doubles.  The model computes in fixed point:  *)
(*   lengths       centimetres            (1 m      = 100)                 *)
(*   velocities    cm/s                   (1 m/s    = 100)                 *)
(*   accelerations cm/s^2                 (9.81     = 981)                 *)
(*   forces        centinewtons           (1 N      = 100)                 *)
(*   masses        kilograms                                               *)
(*   frame times   milliseconds           (deltaTime 0.1 = 100)            *)
(*   wall clock    milliseconds           (Date.now())                     *)
(*   drag coeffs   hundredths             (1.75     = 175)                 *)
(*   canopy area   square metres                                           *)
(*   wind strength tenths of m/s          (0.5      = 5)                   *)
(*   air density   g/m^3                  (1.225    = 1225)                *)
(* Every division rounds toward zero (TDiv).                               *)
(***************************************************************************)
EXTENDS Integers, Sequences, FiniteSets, TLC

(***************************************************************************)
(* Bounds of the model.                                                    *)
(***************************************************************************)
\* the wall clock stops advancing at StartTime + MaxTicks * ClockStep
MaxTicks == 4
\* World.step is called at most MaxSteps times in a behaviour
MaxSteps == 1
\* frames of one run of the landing specification
MaxFrames == 3
\* the dat.GUI controllers (wind, mass, area, drag) fire at most MaxGuiCalls times
MaxGuiCalls == 1
\* the body's own interface (applyForce .. reset) is called at most MaxBodyCalls times
MaxBodyCalls == 3
\* applyForce is not called while a force component is beyond this (cN)
MaxForce == 300000
\* addBody is not called once the registry holds this many entries
MaxRegistry == 3

(***************************************************************************)
(* Program constants.                                                      *)
(***************************************************************************)
GRAVITY == 981
GROUND_LEVEL == 100
BOUNDARY_X == 10000
BOUNDARY_Z == 20000
\* AIR_RESISTANCE = 0.02, in hundredths
AIR_RESISTANCE == 2
\* FRICTION = 0.8 and RESTITUTION = 0.1, in tenths
FRICTION == 8
RESTITUTION == 1
\* the literal 0.1 of update and handleCollisions (m/s), in cm/s
VelocityEpsilon == 10
\* this.groundContactThreshold = 0.1 (m), in cm
groundContactThreshold == 10

DRAG_COEFF_VERTICAL_FREEFALL == 70
DRAG_COEFF_VERTICAL_PARACHUTE == 175
DRAG_COEFF_HORIZONTAL_FREEFALL == 100
DRAG_COEFF_HORIZONTAL_PARACHUTE == 120
PARACHUTIST_MASS == 80
PARACHUTE_AREA_ROUND == 50
\* PARACHUTIST_AREA = 0.7 m^2, in tenths of m^2
PARACHUTIST_AREA == 7
SEA_LEVEL_PRESSURE == 101325
\* SEA_LEVEL_TEMP = 15 C, MIN/MAX_TEMPERATURE = -60/50 C, in millidegrees
SEA_LEVEL_TEMP == 15000
MIN_TEMPERATURE == -60000
MAX_TEMPERATURE == 50000
\* MAX_ALTITUDE = 10000 m
MAX_ALTITUDE == 10000
\* this.openingDuration = 2.0 s; the code compares against openingDuration * 1000
openingDuration == 2000
\* the literal 5 (m) of deployParachute, calculateWind, update, canDeployParachute
MinAltitude == 500
\* setWind: strengths below 0.5 m/s are set to 0
WindCutoff == 5

FREEFALL == "freefall"
OPENING == "opening"
DEPLOYED == "deployed"
ParachuteState == {FREEFALL, OPENING, DEPLOYED}

(***************************************************************************)
(* Inputs.                                                                 *)
(***************************************************************************)
\* Date.now() at construction, and how far one Tick advances it
ClockStep == openingDuration \div 4
StartTime == 2 * ClockStep
MaxTime == StartTime + MaxTicks * ClockStep

\* frame times handed to World.step / ParachutePhysics.update (ms)
DTs == {16, 100, 1000}
\* frame time of the descent specification
FrameDTs == {100}
\* frame times of the landing specification: 10 and 1 frames per second, whose
\* displacement from rest is more than the centimetre the positions resolve
LandingDTs == {100, 1000}
\* start heights of the landing specification: 1.1 m and 6 m (cm)
DescentP0 == {<<0, 110, 0>>, <<0, 600, 0>>}

\* initialPosition handed to the CustomPhysicsBody constructor
P0Set == {<<0, 500, 0>>, <<0, 510, 0>>}
\* arguments of setPosition
PosSet == {<<15000, 30000, 0>>, <<-15000, 50, 25000>>, <<10100, 104, -20100>>}
\* arguments of setVelocity
VelSet == {<<500, -2000, 300>>, <<50, -3, 0>>, <<-9000, 0, 9000>>}
\* arguments of applyForce (cN) and applyImpulse (cN s)
ForceSet == {<<0, 230000, 0>>, <<-40000, -60000, 40000>>}
ImpulseSet == {<<8000, 0, -8000>>}

\* values written by the dat.GUI controllers
MassSet == {50}
AreaSet == {20}
DragVSet == {300}
DragHSet == {50}
\* (strength in tenths of m/s, direction in degrees)
WindSet == {<<3, 0>>, <<50, 90>>}

\* the frames of the descent under the force methods: a regular one, and one
\* long enough to bring the body from 5.1 m to the ground
ForceDTs == {16, 1000}

\* what a caller can hand to the mass and area handlers and to the atmosphere
\* update: valid values, zero and negative ones, and altitudes (cm) from 1 km
\* below sea level to 58.5 km in steps of 500 m
MassInputs == {50, 0, -5}
AreaInputs == {20, 0, -1}
AltSet == {50000 * k - 100000 : k \in 0..119}

BodyIds == {1}
\* the bodies of a world that several bodies are added to and removed from
WorldIds == {1, 2}

(***************************************************************************)
(* Arithmetic.                                                             *)
(***************************************************************************)
\* each helper applies a function, so that an argument is evaluated once
Abs(a) == [x \in Int |-> IF x < 0 THEN -x ELSE x][a]
Sign(a) == [x \in Int |-> IF x > 0 THEN 1 ELSE IF x < 0 THEN -1 ELSE 0][a]
Min2(a, b) == [x \in Int, y \in Int |-> IF x < y THEN x ELSE y][a, b]
Max2(a, b) == [x \in Int, y \in Int |-> IF x > y THEN x ELSE y][a, b]
\* division rounding toward zero
TDiv(a, b) == [x \in Int, y \in Int |-> IF x >= 0 THEN x \div y ELSE -((-x) \div y)][a, b]

RECURSIVE SqrtIter(_, _)
\* Newton's iteration from r
SqrtIter(n, r) ==
    [r2 \in Int |-> IF r2 >= r THEN r ELSE SqrtIter(n, r2)][(r + n \div r) \div 2]
\* Math.sqrt, rounded down
ISqrt(n) == [m \in Int |-> IF m <= 0 THEN 0 ELSE SqrtIter(m, m)][n]

Zero3 == <<0, 0, 0>>
VAdd(a, b) == <<a[1] + b[1], a[2] + b[2], a[3] + b[3]>>
VSub(a, b) == <<a[1] - b[1], a[2] - b[2], a[3] - b[3]>>
\* v * (n / d)
VMulDiv(v, n, d) == <<TDiv(v[1] * n, d), TDiv(v[2] * n, d), TDiv(v[3] * n, d)>>
LengthSq(v) == v[1] * v[1] + v[2] * v[2] + v[3] * v[3]
Length(v) == ISqrt(LengthSq(v))

\* Math.cos / Math.sin of the directions of WindSet, in thousandths
Cos1000(deg) == IF deg = 0 THEN 1000 ELSE IF deg = 180 THEN -1000 ELSE 0
Sin1000(deg) == IF deg = 90 THEN 1000 ELSE IF deg = 270 THEN -1000 ELSE 0

(***************************************************************************)
(* CustomPhysicsBody.  A body is a record; the operators return the body   *)
(* after the method has run.                                               *)
(***************************************************************************)
\* constructor(mass, initialPosition)
NewBody(mass, p0) ==
    [ mass |-> mass, position |-> p0, velocity |-> Zero3, acceleration |-> Zero3,
      force |-> Zero3, isActive |-> TRUE, initialPosition |-> p0,
      onGround |-> FALSE, lastGroundTime |-> 0 ]

GroundCollisionNoBounce(b) ==
    IF b.position[2] < GROUND_LEVEL
    THEN [b EXCEPT !.position = <<b.position[1], GROUND_LEVEL, b.position[3]>>]
    ELSE b

\* the ground branch of handleCollisions
GroundCollision(b) ==
    IF b.position[2] < GROUND_LEVEL
    THEN LET vy == IF b.velocity[2] < 0
                   THEN TDiv(-b.velocity[2] * RESTITUTION, 10)
                   ELSE b.velocity[2]
             vx == IF b.onGround THEN TDiv(b.velocity[1] * FRICTION, 10) ELSE b.velocity[1]
             vz == IF b.onGround THEN TDiv(b.velocity[3] * FRICTION, 10) ELSE b.velocity[3]
         IN  [b EXCEPT !.position = <<b.position[1], GROUND_LEVEL, b.position[3]>>,
                       !.velocity = <<vx, vy, vz>>]
    ELSE b

BoundaryXCollisionElastic(b) ==
    IF Abs(b.position[1]) > BOUNDARY_X
    THEN [b EXCEPT !.position = <<Sign(b.position[1]) * BOUNDARY_X, b.position[2], b.position[3]>>,
                   !.velocity = <<-b.velocity[1], b.velocity[2], b.velocity[3]>>]
    ELSE b

\* the x-boundary branch of handleCollisions
BoundaryXCollision(b) ==
    IF Abs(b.position[1]) > BOUNDARY_X
    THEN [b EXCEPT !.position = <<Sign(b.position[1]) * BOUNDARY_X, b.position[2], b.position[3]>>,
                   !.velocity = <<TDiv(-b.velocity[1] * RESTITUTION, 10), b.velocity[2], b.velocity[3]>>]
    ELSE b

\* the z-boundary branch of handleCollisions
BoundaryZCollision(b) ==
    IF Abs(b.position[3]) > BOUNDARY_Z
    THEN [b EXCEPT !.position = <<b.position[1], b.position[2], Sign(b.position[3]) * BOUNDARY_Z>>,
                   !.velocity = <<b.velocity[1], b.velocity[2], TDiv(-b.velocity[3] * RESTITUTION, 10)>>]
    ELSE b

VelocityFloorVerticalOnly(b) ==
    IF LengthSq(b.velocity) < VelocityEpsilon * VelocityEpsilon
    THEN [b EXCEPT !.velocity = <<b.velocity[1], 0, b.velocity[3]>>]
    ELSE b

\* the last branch of handleCollisions: velocity.length() < 0.1
VelocityFloor(b) ==
    IF LengthSq(b.velocity) < VelocityEpsilon * VelocityEpsilon
    THEN [b EXCEPT !.velocity = Zero3]
    ELSE b

handleCollisionsNoZ(b) ==
    VelocityFloor(BoundaryXCollision(GroundCollision(b)))

handleCollisions(b) ==
    VelocityFloor(BoundaryZCollision(BoundaryXCollision(GroundCollision(b))))

updateGroundContactSampled(b, t) ==
    LET og == (b.position[2] - GROUND_LEVEL) <= groundContactThreshold
                 /\ t % (2 * ClockStep) = 0
    IN  [b EXCEPT !.onGround = og,
                  !.lastGroundTime = IF og THEN t ELSE b.lastGroundTime]

\* t is what Date.now() returns
updateGroundContact(b, t) ==
    LET og == (b.position[2] - GROUND_LEVEL) <= groundContactThreshold
    IN  [b EXCEPT !.onGround = og,
                  !.lastGroundTime = IF og THEN t ELSE b.lastGroundTime]

\* the acceleration update computes: force / mass, gravity, air resistance
Acceleration(b) ==
    LET a0 == <<TDiv(b.force[1], b.mass), TDiv(b.force[2], b.mass) - GRAVITY,
                TDiv(b.force[3], b.mass)>>
        s == Length(b.velocity)
        air == <<TDiv(TDiv(-(AIR_RESISTANCE * s * b.velocity[1]), 10000), b.mass),
                 TDiv(TDiv(-(AIR_RESISTANCE * s * b.velocity[2]), 10000), b.mass),
                 TDiv(TDiv(-(AIR_RESISTANCE * s * b.velocity[3]), 10000), b.mass)>>
    IN  IF LengthSq(b.velocity) > VelocityEpsilon * VelocityEpsilon
        THEN VAdd(a0, air)
        ELSE a0

\* velocity and position after the integration of update, before handleCollisions
Integrate(b, dt) ==
    LET a == Acceleration(b)
        v == VAdd(b.velocity, VMulDiv(a, dt, 1000))
        positionChange == VMulDiv(v, dt, 1000)
        accelerationChange == VMulDiv(VMulDiv(a, dt, 1000), dt, 2000)
    IN  [b EXCEPT !.acceleration = a,
                  !.velocity = v,
                  !.position = VAdd(VAdd(b.position, positionChange), accelerationChange)]

BodyUpdateClearsForceAsleep(b, dt, t) ==
    IF ~b.isActive
    THEN [b EXCEPT !.force = Zero3]
    ELSE [updateGroundContact(handleCollisions(Integrate(b, dt)), t) EXCEPT !.force = Zero3]

\* update(deltaTime)
BodyUpdate(b, dt, t) ==
    IF ~b.isActive
    THEN b
    ELSE [updateGroundContact(handleCollisions(Integrate(b, dt)), t) EXCEPT !.force = Zero3]

\* reset()
BodyResetOp(b) ==
    [b EXCEPT !.position = b.initialPosition, !.velocity = Zero3, !.acceleration = Zero3,
              !.force = Zero3, !.isActive = TRUE, !.onGround = FALSE, !.lastGroundTime = 0]

(***************************************************************************)
(* CustomPhysicsWorld.step: subSteps rounds, every registry entry updated  *)
(* in each round, in registry order.                                       *)
(***************************************************************************)
RECURSIVE StepRound(_, _, _, _)
\* one round: bs is the bodies' state, reg the rest of the registry
StepRound(bs, reg, dt, t) ==
    IF reg = <<>>
    THEN bs
    ELSE StepRound([bs EXCEPT ![Head(reg)] = BodyUpdate(bs[Head(reg)], dt, t)], Tail(reg), dt, t)

RECURSIVE StepRounds(_, _, _, _, _)
StepRounds(bs, reg, dt, t, n) ==
    IF n = 0
    THEN bs
    ELSE StepRounds(StepRound(bs, reg, dt, t), reg, dt, t, n - 1)

WorldStepOp(bs, reg, deltaTime, n, t) == StepRounds(bs, reg, TDiv(deltaTime, n), t, n)

\* the body.update(subStepDelta) calls one step makes, in the order of the two
\* loops: <<body, subStepDelta>> for every registry entry, round after round
RECURSIVE StepCalls(_, _, _)
StepCalls(reg, dt, n) ==
    IF n = 0
    THEN <<>>
    ELSE [k \in 1..Len(reg) |-> <<reg[k], dt>>] \o StepCalls(reg, dt, n - 1)

(***************************************************************************)
(* ParachutePhysics: atmosphere and forces.                                *)
(***************************************************************************)
\* calculateTemperature(altitude): altitude in cm, result in millidegrees C
calculateTemperature(alt) ==
    LET safeAltitude == Max2(0, Min2(alt, MAX_ALTITUDE * 100))
        t == SEA_LEVEL_TEMP - TDiv(65 * safeAltitude, 1000)
    IN  Max2(MIN_TEMPERATURE, Min2(t, MAX_TEMPERATURE))

\* the value that stands for the double NaN
NaN == -999999999

\* Math.pow(b, g*M/(R*L)) with g*M/(R*L) = 5.2559, b in ten-thousandths:
\* b^5 times the first-order expansion of b^0.2559; NaN for a negative base,
\* the exponent not being an integer
PowISA(b) ==
    IF b < 0
    THEN NaN
    ELSE LET b2 == TDiv(b * b, 10000)
             b4 == TDiv(b2 * b2, 10000)
             b5 == TDiv(b4 * b, 10000)
             f  == 10000 - TDiv(2559 * (10000 - b), 10000)
         IN  TDiv(b5 * f, 10000)

\* calculatePressureISA(altitude): altitude in cm, result in Pa
calculatePressureISA(alt) ==
    LET safeAltitude == TDiv(Max2(0, alt), 100)
        \* L * h / T0 = h * 2.2558e-5, in ten-thousandths
        x == TDiv(safeAltitude * 22558, 100000)
        pw == PowISA(10000 - x)
    IN  IF pw = NaN THEN NaN ELSE TDiv(SEA_LEVEL_PRESSURE * pw, 10000)

\* calculateAirDensity(pressure, temperature): (P * M) / (R * T), in g/m^3;
\* M / R = 0.0289644 / 8.3144598 = 3.4836e-3
calculateAirDensity(p, temp) == IF p = NaN THEN NaN ELSE TDiv(p * 3484, temp + 273150)

\* calculateDrag(velocity, area, dragCoeff) with this.airDensity = rho, in cN
calculateDrag(v, area, dragCoeff, rho) ==
    IF LengthSq(v) = 0
    THEN Zero3
    ELSE LET k == TDiv(dragCoeff * area * rho, 1000)
             q == TDiv(k * Length(v), 10000)
         IN  <<TDiv(-(q * v[1]), 2), TDiv(-(q * v[2]), 2), TDiv(-(q * v[3]), 2)>>

\* this.windVelocity as calculateWind sets it (cm/s); its y is never written
WindVelocity(strength, direction) ==
    <<TDiv(Cos1000(direction) * strength * 10, 1000), 0,
      TDiv(Sin1000(direction) * strength * 10, 1000)>>

calculateWindWhenClosed(open, alt, v, area, dragH, rho, strength, direction) ==
    IF alt <= MinAltitude
    THEN Zero3
    ELSE calculateDrag(VSub(WindVelocity(strength, direction), v), area, dragH, rho)

\* calculateWind() with the fields it reads
calculateWind(open, alt, v, area, dragH, rho, strength, direction) ==
    IF ~open \/ alt <= MinAltitude
    THEN Zero3
    ELSE calculateDrag(VSub(WindVelocity(strength, direction), v), area, dragH, rho)

calculateTensionPartialStart(open, st, m, currentTime, deployTime) ==
    IF ~open
    THEN Zero3
    ELSE IF st = OPENING
         THEN <<0, TDiv(m * GRAVITY * (8 * openingDuration
                                        + 2 * Min2(currentTime - deployTime, openingDuration)),
                        10 * openingDuration), 0>>
         ELSE <<0, m * GRAVITY, 0>>

\* calculateTension() with the fields it reads and Date.now() = currentTime, in cN
calculateTension(open, st, m, currentTime, deployTime) ==
    IF ~open
    THEN Zero3
    ELSE IF st = OPENING
         THEN <<0, TDiv(m * GRAVITY * Min2(currentTime - deployTime, openingDuration),
                        openingDuration), 0>>
         ELSE <<0, m * GRAVITY, 0>>

\* the area (tenths of m^2) and the coefficient calculateTerminalVelocity takes
\* for the state
TerminalArea(st, area) ==
    IF st = FREEFALL THEN PARACHUTIST_AREA
    ELSE IF area # 0 THEN 10 * area
    ELSE 10 * PARACHUTE_AREA_ROUND

TerminalDragCoeff(st) ==
    IF st = FREEFALL THEN DRAG_COEFF_VERTICAL_FREEFALL ELSE DRAG_COEFF_VERTICAL_PARACHUTE

\* Math.sqrt(num / den) in cm/s for num / den in m^2/s^2, rounded down (the
\* quotient is carried to four decimal places)
SqrtRatio(num, den) ==
    ISqrt((num \div den) * 10000
          + Min2(9999, (num % den) \div Max2(1, den \div 10000)))

\* calculateTerminalVelocity().value with the fields it reads, in cm/s:
\* sqrt(2 m g / (airDensity * area * dragCoeff))
calculateTerminalVelocity(st, area, m, rho) ==
    SqrtRatio(2 * m * GRAVITY * 10000,
              rho * TerminalArea(st, area) * TerminalDragCoeff(st))

\* canDeployParachute()
canDeployParachute(st, alt) == st = FREEFALL /\ alt > MinAltitude

\* PhysicsControls.getDeployReason()
getDeployReason(st, alt) ==
    IF canDeployParachute(st, alt) THEN "Ready to deploy"
    ELSE IF st # FREEFALL THEN "Already deployed or opening"
    ELSE IF alt <= MinAltitude THEN "Too close to ground"
    ELSE "Unknown reason"

(***************************************************************************)
(* State.                                                                  *)
(***************************************************************************)
VARIABLES
    now,                  \* what Date.now() returns
    state,                \* ParachutePhysics.state
    parachuteOpen, parachuteArea, dragCoeffVertical, dragCoeffHorizontal,
    parachuteDeployTime,
    altitude, temperature, pressure, airDensity,
    mass,                 \* ParachutePhysics.mass
    windStrength, windDirection,
    velocity,             \* ParachutePhysics.velocity
    acceleration,         \* ParachutePhysics.acceleration
    body,                 \* the CustomPhysicsBody objects, by identity
    bodies,               \* CustomPhysicsWorld.bodies
    subSteps,             \* CustomPhysicsWorld.subSteps
    time,                 \* CustomPhysicsWorld.time
    steps,                \* number of World.step calls so far
    calls,                \* number of dat.GUI controller / body interface calls so far
    lastOp,               \* the operation that ran last
    returned,             \* what it returned to its caller
    lastBody,             \* the body the last addBody / removeBody was called with
    updates               \* the body.update calls of the last World.step, in order

canopyVars == <<state, parachuteOpen, parachuteArea, dragCoeffVertical,
                dragCoeffHorizontal, parachuteDeployTime>>
envVars == <<altitude, temperature, pressure, airDensity>>
windVars == <<windStrength, windDirection>>
worldVars == <<body, bodies, subSteps, time, steps>>
traceVars == <<lastBody, updates>>
vars == <<now, canopyVars, envVars, mass, windVars, velocity, acceleration,
          worldVars, calls, lastOp, returned, traceVars>>

\* the falling body as the person module creates it: the constructor, then
\* userData.initialPosition for the reset command
PersonBody(p0) ==
    [ mass |-> PARACHUTIST_MASS, position |-> p0, velocity |-> Zero3,
      acceleration |-> Zero3, force |-> Zero3, isActive |-> TRUE,
      initialPosition |-> p0, onGround |-> FALSE, lastGroundTime |-> 0,
      userData |-> p0 ]

\* the ParachutePhysics constructor, and a world with the bodies bs of which
\* reg are registered; w is <<0, 0>>, or the wind a first setWind has set
InitState(bs, reg, n, w) ==
    /\ now = StartTime
    /\ state = FREEFALL
    /\ parachuteOpen = FALSE
    /\ parachuteArea = 0
    /\ dragCoeffVertical = DRAG_COEFF_VERTICAL_FREEFALL
    /\ dragCoeffHorizontal = DRAG_COEFF_HORIZONTAL_FREEFALL
    /\ parachuteDeployTime = 0
    /\ altitude = 0
    /\ temperature = SEA_LEVEL_TEMP
    /\ pressure = SEA_LEVEL_PRESSURE
    /\ airDensity = calculateAirDensity(SEA_LEVEL_PRESSURE, SEA_LEVEL_TEMP)
    /\ mass = PARACHUTIST_MASS
    /\ windStrength = w[1]
    /\ windDirection = w[2]
    /\ velocity = Zero3
    /\ acceleration = Zero3
    /\ body = bs
    /\ bodies = reg
    /\ subSteps = n
    /\ time = 0
    /\ steps = 0
    /\ calls = 0
    /\ lastOp = "new"
    /\ returned = "undefined"
    /\ lastBody = 0
    /\ updates = <<>>

\* the person module: one body, registered
InitWith(p0, n) == InitState([i \in BodyIds |-> PersonBody(p0)], <<1>>, n, <<0, 0>>)

Init == \E p0 \in P0Set : InitWith(p0, 1)

(***************************************************************************)
(* Operations.  Every action records itself in lastOp and the value the    *)
(* call hands back in returned (none of them returns a value).             *)
(***************************************************************************)
Called(op) == lastOp' = op /\ returned' = "undefined" /\ UNCHANGED <<calls, traceVars>>
\* a dat.GUI controller fired
Gui(op) ==
    /\ calls < MaxGuiCalls
    /\ calls' = calls + 1
    /\ lastOp' = op
    /\ returned' = "undefined"
    /\ UNCHANGED traceVars

\* the wall clock advances
Tick ==
    /\ now + ClockStep <= MaxTime
    /\ now' = now + ClockStep
    /\ Called("tick")
    /\ UNCHANGED <<canopyVars, envVars, mass, windVars, velocity, acceleration, worldVars>>

deployAllowedAnyState(st, alt) == ~(alt <= MinAltitude)

deployAllowedUnlessDeployed(st, alt) == st # DEPLOYED /\ ~(alt <= MinAltitude)

deployAllowedAtLimit(st, alt) == st = FREEFALL /\ ~(alt < MinAltitude)

\* the two guards of deployParachute
deployAllowed(st, alt) == st = FREEFALL /\ ~(alt <= MinAltitude)

DeployParachuteKeepsSetValues ==
    /\ IF deployAllowed(state, altitude)
       THEN /\ state' = OPENING
            /\ parachuteOpen' = TRUE
            /\ parachuteDeployTime' = now
            /\ parachuteArea' = IF parachuteArea # 0 THEN parachuteArea ELSE PARACHUTE_AREA_ROUND
            /\ dragCoeffVertical' = DRAG_COEFF_VERTICAL_PARACHUTE
            /\ dragCoeffHorizontal' = DRAG_COEFF_HORIZONTAL_PARACHUTE
       ELSE UNCHANGED canopyVars
    /\ Called("deployParachute")
    /\ UNCHANGED <<now, envVars, mass, windVars, velocity, acceleration, worldVars>>

\* ParachutePhysics.deployParachute()
DeployParachute ==
    /\ IF deployAllowed(state, altitude)
       THEN /\ state' = OPENING
            /\ parachuteOpen' = TRUE
            /\ parachuteDeployTime' = now
            /\ parachuteArea' = PARACHUTE_AREA_ROUND
            /\ dragCoeffVertical' = DRAG_COEFF_VERTICAL_PARACHUTE
            /\ dragCoeffHorizontal' = DRAG_COEFF_HORIZONTAL_PARACHUTE
       ELSE UNCHANGED canopyVars
    /\ Called("deployParachute")
    /\ UNCHANGED <<now, envVars, mass, windVars, velocity, acceleration, worldVars>>

openingCompleteEarly(currentTime, deployTime) ==
    2 * (currentTime - deployTime) >= openingDuration

openingCompleteLate(currentTime, deployTime) == currentTime - deployTime > openingDuration

\* update: openingProgress >= 1.0 with
\* openingProgress = (currentTime - parachuteDeployTime) / (openingDuration * 1000)
openingComplete(currentTime, deployTime) == currentTime - deployTime >= openingDuration

ParachuteForceDragOnly(open, alt, v, area, dragV, dragH, rho, strength, direction) ==
    IF alt > MinAltitude /\ open
    THEN calculateDrag(v, area, dragV, rho)
    ELSE Zero3

\* the force update hands to cannonBody.applyForce, or Zero3 when it calls nothing
ParachuteForce(open, alt, v, area, dragV, dragH, rho, strength, direction) ==
    IF alt > MinAltitude /\ open
    THEN VAdd(calculateDrag(v, area, dragV, rho),
              calculateWind(open, alt, v, area, dragH, rho, strength, direction))
    ELSE Zero3

ForceWithin(f) == \A i \in 1..3 : Abs(f[i]) <= MaxForce

\* ParachutePhysics.update(deltaTime, cannonBody) with the person's body;
\* deltaTime is not read
\* (the values update computes once are bound once; it runs once per frame,
\* after world.step has consumed the force of the frame before)
Update ==
    \E b \in {body[1]} :
    \E alt \in {b.position[2]} :
    \E temp \in {calculateTemperature(alt)}, p \in {calculatePressureISA(alt)} :
    \E rho \in {calculateAirDensity(p, temp)} :
    \E f \in {ParachuteForce(parachuteOpen, alt, b.velocity, parachuteArea,
                             dragCoeffVertical, dragCoeffHorizontal, rho,
                             windStrength, windDirection)} :
        /\ b.force = Zero3
        /\ altitude' = alt
        /\ temperature' = temp
        /\ pressure' = p
        /\ airDensity' = rho
        /\ state' = IF state = OPENING /\ openingComplete(now, parachuteDeployTime)
                    THEN DEPLOYED
                    ELSE state
        /\ velocity' = b.velocity
        /\ body' = [body EXCEPT ![1].force = VAdd(b.force, f)]
        /\ Called("update")
        /\ UNCHANGED <<now, parachuteOpen, parachuteArea, dragCoeffVertical,
                       dragCoeffHorizontal, parachuteDeployTime, mass, windVars,
                       acceleration, bodies, subSteps, time, steps>>

ParachuteResetKeepsDeployTime ==
    /\ state' = FREEFALL
    /\ parachuteOpen' = FALSE
    /\ parachuteArea' = 0
    /\ dragCoeffVertical' = DRAG_COEFF_VERTICAL_FREEFALL
    /\ dragCoeffHorizontal' = DRAG_COEFF_HORIZONTAL_FREEFALL
    /\ velocity' = Zero3
    /\ acceleration' = Zero3
    /\ UNCHANGED parachuteDeployTime

\* the fields ParachutePhysics.reset() writes
ParachuteReset ==
    /\ state' = FREEFALL
    /\ parachuteOpen' = FALSE
    /\ parachuteArea' = 0
    /\ dragCoeffVertical' = DRAG_COEFF_VERTICAL_FREEFALL
    /\ dragCoeffHorizontal' = DRAG_COEFF_HORIZONTAL_FREEFALL
    /\ velocity' = Zero3
    /\ acceleration' = Zero3
    /\ parachuteDeployTime' = 0

\* ParachutePhysics.reset()
Reset ==
    /\ ParachuteReset
    /\ Called("reset")
    /\ UNCHANGED <<now, envVars, mass, windVars, worldVars>>

ResetBodyToUserDataKeepsVelocity(b) ==
    [b EXCEPT !.position = b.userData, !.isActive = TRUE]

\* the body loop of resetSimulation: bodies with userData.initialPosition
ResetBodyToUserData(b) ==
    [b EXCEPT !.position = b.userData, !.velocity = Zero3, !.isActive = TRUE]

\* PhysicsControls.resetSimulation(), the reset command
ResetSimulation ==
    /\ ParachuteReset
    /\ body' = [i \in BodyIds |->
                  IF \E k \in 1..Len(bodies) : bodies[k] = i
                  THEN ResetBodyToUserData(body[i])
                  ELSE body[i]]
    /\ Called("resetSimulation")
    /\ UNCHANGED <<now, envVars, mass, windVars, bodies, subSteps, time, steps>>

\* ParachutePhysics.setWind(strength, direction)
SetWind(strength, direction) ==
    /\ windStrength' = IF Max2(0, strength) < WindCutoff THEN 0 ELSE Max2(0, strength)
    /\ windDirection' = direction
    /\ Gui("setWind")
    /\ UNCHANGED <<now, canopyVars, envVars, mass, velocity, acceleration, worldVars>>

DisableWindKeepsStrength ==
    /\ windStrength' = windStrength
    /\ windDirection' = 0
    /\ Gui("disableWind")
    /\ UNCHANGED <<now, canopyVars, envVars, mass, velocity, acceleration, worldVars>>

\* ParachutePhysics.disableWind()
DisableWind ==
    /\ windStrength' = 0
    /\ windDirection' = 0
    /\ Gui("disableWind")
    /\ UNCHANGED <<now, canopyVars, envVars, mass, velocity, acceleration, worldVars>>

\* updateEnvironmentalConditions(altitude), altitude in cm
UpdateEnvironmentalConditions(alt) ==
    /\ altitude' = alt
    /\ temperature' = calculateTemperature(alt)
    /\ pressure' = calculatePressureISA(alt)
    /\ airDensity' = calculateAirDensity(calculatePressureISA(alt), calculateTemperature(alt))
    /\ Called("updateEnvironmentalConditions")
    /\ UNCHANGED <<now, canopyVars, mass, windVars, velocity, acceleration, worldVars>>

\* the dat.GUI onChange handlers of setupGUI
SetMass(value) ==
    /\ mass' = value
    /\ Gui("setMass")
    /\ UNCHANGED <<now, canopyVars, envVars, windVars, velocity, acceleration, worldVars>>

SetParachuteArea(value) ==
    /\ parachuteArea' = value
    /\ Gui("setParachuteArea")
    /\ UNCHANGED <<now, state, parachuteOpen, dragCoeffVertical, dragCoeffHorizontal,
                   parachuteDeployTime, envVars, mass, windVars, velocity,
                   acceleration, worldVars>>

SetDragCoeffVertical(value) ==
    /\ dragCoeffVertical' = value
    /\ Gui("setDragCoeffVertical")
    /\ UNCHANGED <<now, state, parachuteOpen, parachuteArea, dragCoeffHorizontal,
                   parachuteDeployTime, envVars, mass, windVars, velocity,
                   acceleration, worldVars>>

SetDragCoeffHorizontal(value) ==
    /\ dragCoeffHorizontal' = value
    /\ Gui("setDragCoeffHorizontal")
    /\ UNCHANGED <<now, state, parachuteOpen, parachuteArea, dragCoeffVertical,
                   parachuteDeployTime, envVars, mass, windVars, velocity,
                   acceleration, worldVars>>

\* CustomPhysicsWorld.step(deltaTime), as long as fewer than limit steps were made
WorldStepTo(deltaTime, limit) ==
    /\ steps < limit
    /\ time' = time + deltaTime
    /\ body' = WorldStepOp(body, bodies, deltaTime, subSteps, now)
    /\ steps' = steps + 1
    /\ updates' = StepCalls(bodies, TDiv(deltaTime, subSteps), subSteps)
    /\ lastOp' = "step"
    /\ returned' = "undefined"
    /\ UNCHANGED <<calls, lastBody>>
    /\ UNCHANGED <<now, canopyVars, envVars, mass, windVars, velocity, acceleration,
                   bodies, subSteps>>

WorldStep(deltaTime) == WorldStepTo(deltaTime, MaxSteps)

\* an operation on one CustomPhysicsBody
BodyCall(i, b, op) ==
    /\ calls < MaxBodyCalls
    /\ calls' = calls + 1
    /\ body' = [body EXCEPT ![i] = b]
    /\ lastOp' = op
    /\ returned' = "undefined"
    /\ UNCHANGED traceVars
    /\ UNCHANGED <<now, canopyVars, envVars, mass, windVars, velocity, acceleration,
                   bodies, subSteps, time, steps>>

\* applyForce(force)
ApplyForce(i, f) ==
    /\ ForceWithin(body[i].force)
    /\ BodyCall(i, [body[i] EXCEPT !.force = VAdd(@, f)], "applyForce")

\* applyImpulse(impulse): velocity += impulse / mass
ApplyImpulse(i, imp) ==
    /\ \A k \in 1..3 : Abs(body[i].velocity[k]) <= MaxForce \div 10
    /\ BodyCall(i, [body[i] EXCEPT !.velocity = VAdd(@, VMulDiv(imp, 1, body[i].mass))],
                "applyImpulse")

SetVelocity(i, v) == BodyCall(i, [body[i] EXCEPT !.velocity = v], "setVelocity")
SetPosition(i, p) == BodyCall(i, [body[i] EXCEPT !.position = p], "setPosition")
Sleep(i) == BodyCall(i, [body[i] EXCEPT !.isActive = FALSE], "sleep")
WakeUp(i) == BodyCall(i, [body[i] EXCEPT !.isActive = TRUE], "wakeUp")
BodyReset(i) == BodyCall(i, BodyResetOp(body[i]), "bodyReset")

\* an operation on the registry of the CustomPhysicsWorld, called with body i
RegistryCall(i, reg, op) ==
    /\ bodies' = reg
    /\ lastBody' = i
    /\ lastOp' = op
    /\ returned' = "undefined"
    /\ UNCHANGED <<now, canopyVars, envVars, mass, windVars, velocity, acceleration,
                   body, subSteps, time, steps, calls, updates>>

\* addBody(body): bodies.push(body)
AddBody(i) ==
    /\ Len(bodies) < MaxRegistry
    /\ RegistryCall(i, Append(bodies, i), "addBody")

\* bodies.indexOf(body), counted from 1; 0 where indexOf returns -1
IndexOf(reg, i) ==
    IF \E k \in 1..Len(reg) : reg[k] = i
    THEN CHOOSE k \in 1..Len(reg) : reg[k] = i /\ \A j \in 1..(k - 1) : reg[j] # i
    ELSE 0

\* bodies.splice(index, 1) for an index within the array
Splice(reg, k) == SubSeq(reg, 1, k - 1) \o SubSeq(reg, k + 1, Len(reg))

removeBodyOpUnguarded(reg, i) ==
    IF IndexOf(reg, i) > 0 THEN Splice(reg, IndexOf(reg, i))
    ELSE IF reg = <<>> THEN reg ELSE Splice(reg, Len(reg))
\* removeBody(body): the entry at indexOf(body) is spliced out, if there is one
removeBodyOp(reg, i) ==
    IF IndexOf(reg, i) > 0 THEN Splice(reg, IndexOf(reg, i)) ELSE reg

RemoveBody(i) == RegistryCall(i, removeBodyOp(bodies, i), "removeBody")

\* a method of ParachutePhysics that computes a value from the fields and hands
\* it back
Query(op, value) ==
    /\ lastOp' = op
    /\ returned' = value
    /\ UNCHANGED <<now, canopyVars, envVars, mass, windVars, velocity, acceleration,
                   worldVars, calls, traceVars>>

\* calculateWind()
CalculateWind ==
    Query("calculateWind",
          calculateWind(parachuteOpen, altitude, velocity, parachuteArea,
                        dragCoeffHorizontal, airDensity, windStrength, windDirection))

\* calculateTension()
CalculateTension ==
    Query("calculateTension",
          calculateTension(parachuteOpen, state, mass, now, parachuteDeployTime))

\* calculateTerminalVelocity()
CalculateTerminalVelocity ==
    Query("calculateTerminalVelocity",
          calculateTerminalVelocity(state, parachuteArea, mass, airDensity))

(***************************************************************************)
(* The descent: the deployment machine driven by its commands, the frame   *)
(* loop (step, update) and the wall clock.                                 *)
(***************************************************************************)
Next ==
    \/ Tick
    \/ DeployParachute
    \/ Update
    \/ Reset
    \/ ResetSimulation
    \/ \E w \in WindSet : SetWind(w[1], w[2])
    \/ DisableWind
    \/ \E m \in MassSet : SetMass(m)
    \/ \E a \in AreaSet : SetParachuteArea(a)
    \/ \E c \in DragVSet : SetDragCoeffVertical(c)
    \/ \E c \in DragHSet : SetDragCoeffHorizontal(c)
    \/ \E dt \in FrameDTs : WorldStep(dt)
    \/ calls < MaxGuiCalls /\ BodyReset(1)

Spec == Init /\ [][Next]_vars

\* animate() keeps calling parachutePhysics.update while the wall clock advances
LiveSpec == Spec /\ WF_vars(Tick) /\ WF_vars(Update)

(***************************************************************************)
(* The body: CustomPhysicsBody under its own interface and World.step.     *)
(***************************************************************************)
InitBody == \E p0 \in P0Set, n \in {1, 2} : InitWith(p0, n)

NextBody ==
    \/ \E i \in BodyIds, f \in ForceSet : ApplyForce(i, f)
    \/ \E i \in BodyIds, imp \in ImpulseSet : ApplyImpulse(i, imp)
    \/ \E i \in BodyIds, v \in VelSet : SetVelocity(i, v)
    \/ \E i \in BodyIds, p \in PosSet : SetPosition(i, p)
    \/ \E i \in BodyIds : Sleep(i)
    \/ \E i \in BodyIds : WakeUp(i)
    \/ \E i \in BodyIds : BodyReset(i)
    \/ \E dt \in DTs : WorldStep(dt)

SpecBody == InitBody /\ [][NextBody]_vars

(***************************************************************************)
(* The forces: the descent with the wind set at its start, and the force   *)
(* and terminal velocity methods called in between.                        *)
(***************************************************************************)
InitForces ==
    \E p0 \in P0Set, w \in WindSet :
        InitState([i \in BodyIds |-> PersonBody(p0)], <<1>>, 1,
                  <<IF Max2(0, w[1]) < WindCutoff THEN 0 ELSE Max2(0, w[1]), w[2]>>)

NextForces ==
    \/ Tick
    \/ DeployParachute
    \/ Update
    \/ \E m \in MassSet : SetMass(m)
    \/ \E a \in AreaSet : SetParachuteArea(a)
    \/ \E c \in DragVSet : SetDragCoeffVertical(c)
    \/ \E dt \in ForceDTs : WorldStep(dt)
    \/ DisableWind
    \/ CalculateWind
    \/ CalculateTension
    \/ CalculateTerminalVelocity

SpecForces == InitForces /\ [][NextForces]_vars

(***************************************************************************)
(* The inputs: the atmosphere update and the mass and area handlers        *)
(* called with any value.                                                  *)
(***************************************************************************)
NextInputs ==
    \/ \E alt \in AltSet : UpdateEnvironmentalConditions(alt)
    \/ \E m \in MassInputs : SetMass(m)
    \/ \E a \in AreaInputs : SetParachuteArea(a)

SpecInputs == Init /\ [][NextInputs]_vars

(***************************************************************************)
(* The world: its registry under addBody and removeBody, and step over the *)
(* bodies registered.                                                      *)
(***************************************************************************)
\* a new CustomPhysicsWorld (bodies = []) and two bodies not yet added
InitWorld ==
    \E p0 \in P0Set, n \in {1, 2} :
        InitState([i \in WorldIds |-> PersonBody(p0)], <<>>, n, <<0, 0>>)

NextWorld ==
    \/ \E i \in WorldIds : AddBody(i)
    \/ \E i \in WorldIds : RemoveBody(i)
    \/ \E dt \in DTs : WorldStep(dt)

SpecWorld == InitWorld /\ [][NextWorld]_vars

(***************************************************************************)
(* Properties of the deployment state machine.                             *)
(***************************************************************************)
\* update has handed its force to the body and the frame's world.step has not
\* consumed it yet: update is not called again before that step
UpdateHorizon == body[1].force # Zero3

\* C1: a deploy in FREEFALL above 5 m leaves the state OPENING when it returns;
\* an update in OPENING leaves OPENING while the time since the deploy is below
\* openingDuration and DEPLOYED once it is not; and with the clock advancing and
\* update being called, OPENING does not last (as long as the clock's horizon
\* allows and update stays callable).
C1_OpeningThenDeployed ==
    /\ [][(lastOp' = "deployParachute" /\ state = FREEFALL /\ altitude > MinAltitude)
            => state' = OPENING]_vars
    /\ [][(lastOp' = "update" /\ state = OPENING)
            => state' = IF now - parachuteDeployTime < openingDuration
                        THEN OPENING
                        ELSE DEPLOYED]_vars
    /\ ((state = OPENING /\ parachuteDeployTime + openingDuration <= MaxTime)
            ~> (state # OPENING \/ UpdateHorizon))

C1_Witness ==
    /\ lastOp = "update"
    /\ state = DEPLOYED
    /\ now - parachuteDeployTime = openingDuration

\* C2: the deployment state changes only FREEFALL -> OPENING by deployParachute,
\* OPENING -> DEPLOYED by update, and to FREEFALL by reset (alone or within
\* resetSimulation).
C2_LegalTransitions ==
    [][state' # state =>
        \/ (state = FREEFALL /\ state' = OPENING /\ lastOp' = "deployParachute")
        \/ (state = OPENING /\ state' = DEPLOYED /\ lastOp' = "update")
        \/ (state' = FREEFALL /\ lastOp' \in {"reset", "resetSimulation"})]_vars

C2_Witness ==
    /\ lastOp = "update"
    /\ state = DEPLOYED
    /\ calls > 0
    /\ steps > 0

\* C3: deployParachute in OPENING or DEPLOYED changes none of state,
\* parachuteOpen, parachuteArea, the drag coefficients, parachuteDeployTime.
C3_DeployNoOpWhenOpen ==
    [][(lastOp' = "deployParachute" /\ state # FREEFALL) => UNCHANGED canopyVars]_vars

C3_Witness ==
    /\ lastOp = "deployParachute"
    /\ state = OPENING
    /\ parachuteDeployTime < now

\* C4 as stated: a deploy rejected in FREEFALL for altitude <= 5 hands the
\* reason back to its caller.
C4_ReturnsReason ==
    (lastOp = "deployParachute" /\ state = FREEFALL) => returned = "Too close to ground"

\* C4 amended: deployParachute in FREEFALL at altitude <= 5 changes no canopy
\* attribute and returns nothing; the reason is what getDeployReason reports.
C4_RejectedNearGround ==
    [][(lastOp' = "deployParachute" /\ state = FREEFALL /\ altitude <= MinAltitude)
         => /\ UNCHANGED canopyVars
            /\ returned' = "undefined"
            /\ getDeployReason(state', altitude') = "Too close to ground"]_vars

C4_Witness ==
    /\ lastOp = "deployParachute"
    /\ state = FREEFALL
    /\ altitude = MinAltitude
    /\ getDeployReason(state, altitude) = "Too close to ground"

\* C5: a deploy that takes FREEFALL to OPENING leaves parachuteDeployTime at the
\* time of the call, the area at PARACHUTE_AREA_ROUND and the drag coefficients
\* at the canopy constants.
C5_DeploySetsCanopy ==
    [][(lastOp' = "deployParachute" /\ state = FREEFALL /\ state' = OPENING)
         => /\ parachuteDeployTime' = now
            /\ parachuteArea' = 50
            /\ dragCoeffVertical' = 175
            /\ dragCoeffHorizontal' = 120]_vars

C5_Witness ==
    /\ lastOp = "deployParachute"
    /\ state = OPENING
    /\ parachuteDeployTime = now
    /\ calls > 0
    /\ mass = PARACHUTIST_MASS
    /\ windStrength = 0

\* C6: after reset() the state is FREEFALL, the canopy closed, the area 0, the
\* drag coefficients the freefall constants, ParachutePhysics' velocity and
\* acceleration zero and parachuteDeployTime 0.
C6_ResetPost ==
    lastOp \in {"reset", "resetSimulation"} =>
        /\ state = FREEFALL
        /\ parachuteOpen = FALSE
        /\ parachuteArea = 0
        /\ dragCoeffVertical = 70
        /\ dragCoeffHorizontal = 100
        /\ velocity = Zero3
        /\ acceleration = Zero3
        /\ parachuteDeployTime = 0

C6_Witness ==
    /\ lastOp = "reset"
    /\ altitude > MinAltitude
    /\ now >= StartTime + openingDuration
    /\ calls > 0

\* C7: after the reset command the body is at the position it was created at,
\* its velocity is zero and the state is FREEFALL; CustomPhysicsBody.reset alone
\* restores the position and the velocity.
C7_ResetRestoresBody ==
    /\ lastOp = "resetSimulation" =>
          /\ body[1].position = body[1].initialPosition
          /\ body[1].velocity = Zero3
          /\ state = FREEFALL
    /\ lastOp = "bodyReset" =>
          /\ body[1].position = body[1].initialPosition
          /\ body[1].velocity = Zero3
    /\ body[1].initialPosition \in P0Set

C7_Witness ==
    /\ lastOp = "resetSimulation"
    /\ steps > 0
    /\ time > 0
    /\ altitude # body[1].position[2]

(***************************************************************************)
(* Properties of CustomPhysicsBody and CustomPhysicsWorld.step.            *)
(***************************************************************************)
InBounds(b) ==
    /\ b.position[2] >= GROUND_LEVEL
    /\ Abs(b.position[1]) <= BOUNDARY_X
    /\ Abs(b.position[3]) <= BOUNDARY_Z

\* C8 as stated: after World.step every body of the registry is at or above the
\* ground and inside the x and z boundaries.
C8_AllBodiesInBounds ==
    lastOp = "step" => \A k \in 1..Len(bodies) : InBounds(body[bodies[k]])

\* C8 amended: after World.step every body of the registry that is active (not
\* put to sleep) is at or above the ground and inside the x and z boundaries.
C8_ActiveBodiesInBounds ==
    lastOp = "step" =>
        \A k \in 1..Len(bodies) : body[bodies[k]].isActive => InBounds(body[bodies[k]])

C8_Witness ==
    /\ lastOp = "step"
    /\ body[1].isActive
    /\ body[1].position[1] = -BOUNDARY_X
    /\ body[1].position[2] = GROUND_LEVEL
    /\ body[1].position[3] = BOUNDARY_Z

\* a step of one update call with time step dt on body 1
OneUpdate == lastOp' = "step" /\ subSteps = 1

\* C9 as stated: one update of a body below the ground with negative y velocity
\* leaves it at the ground with non-negative y velocity.
C9_BelowGroundLifted ==
    [][(OneUpdate /\ body[1].position[2] < GROUND_LEVEL /\ body[1].velocity[2] < 0)
         => /\ body'[1].position[2] = GROUND_LEVEL
            /\ body'[1].velocity[2] >= 0]_vars

\* C9 amended: one update of an active body that the integration leaves below
\* the ground ends with the body at the ground and non-negative y velocity.
C9_IntegratedBelowGroundLifted ==
    [][(OneUpdate /\ body[1].isActive
          /\ Integrate(body[1], time' - time).position[2] < GROUND_LEVEL)
         => /\ body'[1].position[2] = GROUND_LEVEL
            /\ body'[1].velocity[2] >= 0]_vars

C9_Witness ==
    /\ lastOp = "step"
    /\ subSteps = 1
    /\ body[1].isActive
    /\ body[1].position[2] = GROUND_LEVEL
    /\ body[1].velocity[2] > 0

\* C10 as stated: one update of a body beyond the x (z) boundary clamps x (z) to
\* the boundary on its side and multiplies the x (z) velocity the integration
\* yields by -RESTITUTION.
C10_BoundaryClampsAndReflects ==
    [][OneUpdate =>
         /\ Abs(body[1].position[1]) > BOUNDARY_X =>
              /\ body'[1].position[1] = Sign(body[1].position[1]) * BOUNDARY_X
              /\ body'[1].velocity[1] =
                   TDiv(-Integrate(body[1], time' - time).velocity[1] * RESTITUTION, 10)
         /\ Abs(body[1].position[3]) > BOUNDARY_Z =>
              /\ body'[1].position[3] = Sign(body[1].position[3]) * BOUNDARY_Z
              /\ body'[1].velocity[3] =
                   TDiv(-Integrate(body[1], time' - time).velocity[3] * RESTITUTION, 10)]_vars

\* C10 amended: one update of an active body that the integration leaves beyond
\* the x (z) boundary clamps x (z) to the boundary on that side, and the x (z)
\* velocity is -RESTITUTION times its value after the ground branch unless the
\* speed that results is below the floor, which zeroes the velocity.
C10_IntegratedBeyondBoundary ==
    [][(OneUpdate /\ body[1].isActive) =>
         LET bi == Integrate(body[1], time' - time)
             g == GroundCollision(bi)
         IN  /\ Abs(bi.position[1]) > BOUNDARY_X =>
                  /\ body'[1].position[1] = Sign(bi.position[1]) * BOUNDARY_X
                  /\ \/ body'[1].velocity[1] = TDiv(-g.velocity[1] * RESTITUTION, 10)
                     \/ body'[1].velocity = Zero3
             /\ Abs(bi.position[3]) > BOUNDARY_Z =>
                  /\ body'[1].position[3] = Sign(bi.position[3]) * BOUNDARY_Z
                  /\ \/ body'[1].velocity[3] = TDiv(-g.velocity[3] * RESTITUTION, 10)
                     \/ body'[1].velocity = Zero3]_vars

C10_Witness ==
    /\ lastOp = "step"
    /\ subSteps = 1
    /\ body[1].isActive
    /\ body[1].position[1] = BOUNDARY_X
    /\ body[1].velocity[1] < 0
    /\ body[1].position[3] = -BOUNDARY_Z
    /\ body[1].velocity[3] > 0

(***************************************************************************)
(* Properties of the world's registry and of step.                         *)
(***************************************************************************)
\* the bodies that are registered
Registered == {bodies[k] : k \in 1..Len(bodies)}

\* C11: after any sequence of addBody and removeBody calls no body is in the
\* registry more than once.
C11_NoDuplicates ==
    \A j, k \in 1..Len(bodies) : bodies[j] = bodies[k] => j = k

\* C12: removeBody of a body that is not registered leaves the registry as it
\* was, and removeBody of a registered body takes out one entry of that body
\* and leaves the other entries in the order they had.
C12_RemoveKeepsOrder ==
    [][lastOp' = "removeBody" =>
        IF lastBody' \notin Registered
        THEN bodies' = bodies
        ELSE \E k \in 1..Len(bodies) :
                /\ bodies[k] = lastBody'
                /\ Len(bodies') = Len(bodies) - 1
                /\ \A j \in 1..(k - 1) : bodies'[j] = bodies[j]
                /\ \A j \in k..Len(bodies') : bodies'[j] = bodies[j + 1]]_vars

C12_Witness ==
    /\ lastOp = "removeBody"
    /\ lastBody = 2
    /\ bodies = <<1>>

\* C13: a step with subSteps = N makes N rounds; in each round every registered
\* body is updated exactly once, with the slice deltaTime / N, in registry
\* order, and a round ends before the next begins.
C13_RoundsOncePerBody ==
    [][lastOp' = "step" =>
        LET n == Cardinality(Registered)
        IN  /\ Len(updates') = subSteps * n
            /\ \A r \in 0..(subSteps - 1) :
                  /\ \A i \in Registered :
                        Cardinality({k \in 1..n : updates'[r * n + k][1] = i}) = 1
                  /\ \A k \in 1..n : updates'[r * n + k][2] * subSteps = time' - time
                  /\ \A j, k \in 1..n :
                        j < k => IndexOf(bodies, updates'[r * n + j][1])
                                    < IndexOf(bodies, updates'[r * n + k][1])]_vars

\* C14: after every step the force accumulator of every registered body is the
\* zero vector.
C14_ForceZeroAfterStep ==
    lastOp = "step" => \A i \in Registered : body[i].force = Zero3

(***************************************************************************)
(* Properties of the forces.                                               *)
(***************************************************************************)
\* the drag and the wind force of an update that starts in the current state
\* and ends in the primed one
UpdateDrag == calculateDrag(body[1].velocity, parachuteArea, dragCoeffVertical, airDensity')
UpdateWind ==
    calculateWind(parachuteOpen, altitude', body[1].velocity, parachuteArea,
                  dragCoeffHorizontal, airDensity', windStrength, windDirection)
UpdateTension == calculateTension(parachuteOpen, state', mass, now, parachuteDeployTime)

C16_WindOnlyOpenAndAirborne ==
    (lastOp = "calculateWind" /\ (~parachuteOpen \/ altitude <= MinAltitude))
        => returned = Zero3

C16_Witness ==
    /\ lastOp = "calculateWind"
    /\ windStrength > 0
    /\ parachuteArea > 0
    /\ ~parachuteOpen
    /\ altitude > MinAltitude
    /\ returned = Zero3

DragMagnitude(v, cd, a, rho) == (((cd * a * rho) \div 1000) * ((v * v) \div 100)) \div 2000

\* the two forces differ by at most 2 percent of the second
Balanced(f, w) == Abs(f - w) * 50 <= w

\* C19: the terminal velocity that calculateTerminalVelocity returns makes the
\* drag magnitude, for the coefficient, area and density that update's drag
\* computation takes in the same state, equal to the weight m g.
C19_DragAtVtEqualsWeight ==
    lastOp = "calculateTerminalVelocity" =>
        Balanced(DragMagnitude(returned, dragCoeffVertical,
                               IF parachuteOpen THEN 10 * parachuteArea ELSE PARACHUTIST_AREA,
                               airDensity),
                 mass * GRAVITY)

(***************************************************************************)
(* Properties of the inputs.                                               *)
(***************************************************************************)
\* C18: after any sequence of setter calls the mass is positive and the canopy
\* area is not negative (a call with a non-positive mass or a negative area
\* having been rejected).
C18_InvalidValuesRejected == mass > 0 /\ parachuteArea >= 0

\* C20: after the atmosphere update with any altitude the temperature lies in
\* [MIN_TEMPERATURE, MAX_TEMPERATURE], the pressure is that of an altitude in
\* [0, MAX_ALTITUDE], and pressure and density are finite and not negative.
C20_AtmosphereClamped ==
    lastOp = "updateEnvironmentalConditions" =>
        /\ MIN_TEMPERATURE <= temperature /\ temperature <= MAX_TEMPERATURE
        /\ pressure # NaN /\ airDensity # NaN
        /\ calculatePressureISA(MAX_ALTITUDE * 100) <= pressure
        /\ pressure <= calculatePressureISA(0)
        /\ airDensity >= 0

(***************************************************************************)
(* Properties of the canopy fields, the deploy guard and the wind.         *)
(***************************************************************************)
\* C21: in FREEFALL the canopy is closed, its area is 0 and both drag
\* coefficients are the freefall constants; and the canopy is open exactly in
\* OPENING and DEPLOYED.
C21_FreefallDefaults ==
    /\ state = FREEFALL =>
            /\ ~parachuteOpen
            /\ parachuteArea = 0
            /\ dragCoeffVertical = DRAG_COEFF_VERTICAL_FREEFALL
            /\ dragCoeffHorizontal = DRAG_COEFF_HORIZONTAL_FREEFALL
    /\ parachuteOpen <=> state \in {OPENING, DEPLOYED}

\* C24: whenever the state is DEPLOYED at least openingDuration has passed since
\* the deploy that parachuteDeployTime records; DEPLOYED is entered only from
\* OPENING by an update, and OPENING only by a deploy, which records the time
\* of the call; so a reset puts a full new opening between it and DEPLOYED.
C24_DeployedAfterFullOpening ==
    /\ [](state = DEPLOYED => now - parachuteDeployTime >= openingDuration)
    /\ [][(state' = DEPLOYED /\ state # DEPLOYED)
            => (state = OPENING /\ lastOp' = "update")]_vars
    /\ [][(state' = OPENING /\ state # OPENING)
            => (lastOp' = "deployParachute" /\ parachuteDeployTime' = now)]_vars

C24_Witness ==
    /\ state = DEPLOYED
    /\ now - parachuteDeployTime >= openingDuration
    /\ steps > 0

\* C25: a deploy in FREEFALL with the body above 5 m at the moment of the call
\* is accepted.
C25_DeployAcceptedAboveMinAltitude ==
    [][(lastOp' = "deployParachute" /\ state = FREEFALL
            /\ body[1].position[2] > MinAltitude)
        => state' = OPENING]_vars

C23_SpeedZeroOrAboveFloor ==
    (lastOp = "step" /\ body[1].isActive) =>
        \/ body[1].velocity = Zero3
        \/ LengthSq(body[1].velocity) >= VelocityEpsilon * VelocityEpsilon

\* a step ended with the body on the ground, its bounce zeroed by the floor
C23_Witness ==
    /\ lastOp = "step"
    /\ body[1].isActive
    /\ body[1].position[2] = GROUND_LEVEL
    /\ body[1].velocity = Zero3
    /\ body[1].acceleration # Zero3

\* C27: one update of an active body that the integration leaves beyond the x
\* (z) boundary ends with an x (z) velocity that does not point outward:
\* sign(position) * velocity <= 0 on that axis.
C27_BoundaryVelocityNotOutward ==
    [][(OneUpdate /\ body[1].isActive) =>
         LET bi == Integrate(body[1], time' - time)
         IN  /\ Abs(bi.position[1]) > BOUNDARY_X =>
                  Sign(body'[1].position[1]) * body'[1].velocity[1] <= 0
             /\ Abs(bi.position[3]) > BOUNDARY_Z =>
                  Sign(body'[1].position[3]) * body'[1].velocity[3] <= 0]_vars

\* C28: a step leaves a sleeping body as it is (position, velocity,
\* acceleration, force, onGround, lastGroundTime) although the step calls its
\* update; and a sleeping body becomes active only by wakeUp or reset.
C28_SleepingBodyUntouched ==
    /\ [][(lastOp' = "step" /\ ~body[1].isActive) =>
            /\ body'[1] = body[1]
            /\ \E k \in DOMAIN updates' : updates'[k][1] = 1]_vars
    /\ [][(~body[1].isActive /\ body'[1].isActive)
            => lastOp' \in {"wakeUp", "bodyReset"}]_vars

\* a sleeping body with a force accumulated has been stepped
C28_Witness ==
    /\ lastOp = "step"
    /\ ~body[1].isActive
    /\ body[1].force # Zero3
    /\ body[1].velocity # Zero3
    /\ Len(updates) > 0

(***************************************************************************)
(* The landing: frames of either frame time while the wall clock runs,     *)
(* with the canopy deployed or not, from a start low enough to touch down  *)
(* within the frames.                                                      *)
(***************************************************************************)
InitDescent == \E p0 \in DescentP0 : InitWith(p0, 1)

NextDescent ==
    \/ Tick
    \/ DeployParachute
    \/ Update
    \/ \E dt \in LandingDTs : WorldStepTo(dt, MaxFrames)

SpecDescent == InitDescent /\ [][NextDescent]_vars

\* C29: a step of an active body at rest on the ground (y = GROUND_LEVEL,
\* velocity zero, no force) leaves its position and velocity as they are and
\* its ground contact set, whatever the frame time.
C29_RestOnGroundIsFixedPoint ==
    [][(/\ lastOp' = "step"
        /\ body[1].isActive
        /\ body[1].position[2] = GROUND_LEVEL
        /\ body[1].velocity = Zero3
        /\ body[1].force = Zero3)
       => (/\ body'[1].position = body[1].position
           /\ body'[1].velocity = Zero3
           /\ body'[1].onGround)]_vars

\* C30, its finite part: once a step has left the body in ground contact with
\* zero velocity, every later step of any frame time leaves it so.
C30_LandedStaysLanded ==
    [][(/\ lastOp' = "step"
        /\ steps > 0
        /\ body[1].isActive
        /\ body[1].onGround
        /\ body[1].velocity = Zero3)
       => (body'[1].onGround /\ body'[1].velocity = Zero3)]_vars

(***************************************************************************)
(* The wall clock and the integration.                                     *)
(***************************************************************************)
\* getPhysicsState(): what a body reports of itself; lastGroundTime is not in it
getPhysicsState(b) ==
    [position |-> b.position, velocity |-> b.velocity, acceleration |-> b.acceleration,
     force |-> b.force, mass |-> b.mass, isActive |-> b.isActive, onGround |-> b.onGround]

\* C22: the integration does not depend on the wall clock. Whatever the clock
\* reads during a step, the step yields the position, velocity, acceleration
\* (and force, mass, activity, ground contact) it yields when the clock reads
\* StartTime; the force an update adds is a function of the body and of canopy,
\* wind, mass and atmosphere fields, the atmosphere sampled at the body's
\* height; and neither a tick of the clock nor an update (where OPENING becomes
\* DEPLOYED by the clock) changes one of the canopy, wind and mass fields.
C22_IntegrationIgnoresClock ==
    /\ [][lastOp' = "step" =>
            getPhysicsState(body'[1])
                = getPhysicsState(WorldStepOp(body, bodies, time' - time, subSteps,
                                              StartTime)[1])]_vars
    /\ [][lastOp' = "update" =>
            /\ altitude' = body[1].position[2]
            /\ body'[1] = [body[1] EXCEPT !.force =
                    VAdd(@, ParachuteForce(parachuteOpen, altitude', body[1].velocity,
                                           parachuteArea, dragCoeffVertical,
                                           dragCoeffHorizontal, airDensity',
                                           windStrength, windDirection))]
            /\ UNCHANGED <<parachuteOpen, parachuteArea, dragCoeffVertical,
                           dragCoeffHorizontal, mass, windVars>>]_vars
    /\ [][lastOp' = "tick" =>
            /\ body' = body
            /\ UNCHANGED <<parachuteOpen, parachuteArea, dragCoeffVertical,
                           dragCoeffHorizontal, mass, windVars, envVars, time>>]_vars

\* a step under the force of an open canopy read the clock after it had
\* advanced: it ended on the ground and stamped lastGroundTime
C22_Witness ==
    /\ lastOp = "step"
    /\ body[1].onGround
    /\ body[1].lastGroundTime > StartTime
    /\ parachuteOpen
    /\ body[1].acceleration[2] > -GRAVITY

====
